---------------------------- MODULE Spec2Model ----------------------------
(***************************************************************************)
(* repoclip: sandboxed ingestion (clone / archive upload) of a repository  *)
(* into a per-session directory, filtered tree construction, file          *)
(* selection and byte-bounded markdown pagination.                         *)
(*                                                                         *)
(* Strings are sequences of one-character strings, so that strip, split,   *)
(* startswith, lower and the code-point ordering used by sorted() are      *)
(* computed and not assumed.  A path is the sequence of its parts, counted *)
(* from the filesystem root (every path the program builds is absolute).   *)
(***************************************************************************)
EXTENDS Integers, Sequences, FiniteSets, TLC

VARIABLES
  fs,        \* the filesystem: path -> node (dir / file / link)
  now,       \* logical clock behind st_mtime
  uploaded_paths,  \* main.py: session id -> path of the pending upload
  call,      \* the request or function call being served
  ret        \* its result

vars == <<fs, now, uploaded_paths, call, ret>>

----------------------------------------------------------------------------
(* str *)

\* the characters in use, in ascending code-point order
CodeOrder ==
  << " ", "-", ".", "/",
     "0", "1", "2", "3", "4", "5", "6", "7", "8", "9",
     "A", "B", "C", "D", "E", "F", "G", "H", "I", "J", "K", "L", "M",
     "N", "O", "P", "Q", "R", "S", "T", "U", "V", "W", "X", "Y", "Z",
     "_",
     "a", "b", "c", "d", "e", "f", "g", "h", "i", "j", "k", "l", "m",
     "n", "o", "p", "q", "r", "s", "t", "u", "v", "w", "x", "y", "z" >>

Ord(c) == CHOOSE i \in 1..Len(CodeOrder) : CodeOrder[i] = c

IsUpper(c) == Ord(c) >= Ord("A") /\ Ord(c) <= Ord("Z")

IsWordChar(c) == Ord(c) >= Ord("0")

LowerChar(c) == IF IsUpper(c) THEN CodeOrder[Ord(c) - Ord("A") + Ord("a")] ELSE c

Lower(s) == [i \in 1..Len(s) |-> LowerChar(s[i])]

Front(s) == SubSeq(s, 1, Len(s) - 1)

SeqRange(q) == { q[i] : i \in 1..Len(q) }

Last(s) == s[Len(s)]

RECURSIVE StrLess(_, _)
StrLess(a, b) ==
  IF a = <<>> THEN b # <<>>
  ELSE IF b = <<>> THEN FALSE
  ELSE IF a[1] = b[1] THEN StrLess(Tail(a), Tail(b))
  ELSE Ord(a[1]) < Ord(b[1])

StartsWith(s, pre) == Len(pre) <= Len(s) /\ SubSeq(s, 1, Len(pre)) = pre

EndsWith(s, suf) ==
  Len(suf) <= Len(s) /\ SubSeq(s, Len(s) - Len(suf) + 1, Len(s)) = suf

RECURSIVE LStrip(_, _)
LStrip(s, cs) ==
  IF s # <<>> /\ s[1] \in cs THEN LStrip(Tail(s), cs) ELSE s

RECURSIVE RStrip(_, _)
RStrip(s, cs) ==
  IF s # <<>> /\ Last(s) \in cs THEN RStrip(Front(s), cs) ELSE s

Strip(s, cs) == RStrip(LStrip(s, cs), cs)

\* s.split(sep): the pieces between occurrences of the character sep
RECURSIVE Split(_, _)
Split(s, sep) ==
  IF \A i \in 1..Len(s) : s[i] # sep THEN <<s>>
  ELSE LET i == CHOOSE k \in 1..Len(s) :
                  s[k] = sep /\ \A j \in 1..(k - 1) : s[j] # sep
       IN  <<SubSeq(s, 1, i - 1)>> \o Split(SubSeq(s, i + 1, Len(s)), sep)

RECURSIVE JoinStr(_, _)
JoinStr(parts, sep) ==
  IF parts = <<>> THEN <<>>
  ELSE IF Len(parts) = 1 THEN parts[1]
  ELSE parts[1] \o <<sep>> \o JoinStr(Tail(parts), sep)

----------------------------------------------------------------------------
(* pathlib *)

\* the parts of PurePosixPath(s): empty and "." components are dropped,
\* ".." is kept
PathParts(s) ==
  SelectSeq(Split(s, "/"), LAMBDA part : part # <<>> /\ part # <<".">>)

IsAbsolute(s) == StartsWith(s, <<"/">>)

\* base / s
JoinPath(base, s) == IF IsAbsolute(s) THEN PathParts(s) ELSE base \o PathParts(s)

PathName(p) == IF p = <<>> THEN <<>> ELSE Last(p)

Parents(p) == { SubSeq(p, 1, k) : k \in 0..(Len(p) - 1) }

\* PurePath.suffix of a file name
Suffix(name) ==
  LET dots == { i \in 1..Len(name) : name[i] = "." } IN
  IF dots = {} THEN <<>>
  ELSE LET i == CHOOSE k \in dots : \A j \in dots : j <= k IN
       IF 1 < i /\ i < Len(name) THEN SubSeq(name, i, Len(name)) ELSE <<>>

PathStr(p) == <<"/">> \o JoinStr(p, "/")

----------------------------------------------------------------------------
(* the filesystem *)

DirNode(t)   == [kind |-> "dir",  mtime |-> t, data |-> 0, to |-> <<>>]

FileNode(d)  == [kind |-> "file", mtime |-> 0, data |-> d, to |-> <<>>]

LinkNode(to) == [kind |-> "link", mtime |-> 0, data |-> 0, to |-> to]

\* what a lookup returns for a path that does not exist; "/" is no file name
ENOENT == << <<"/">> >>

\* symbolic links followed while resolving one path
MaxLinkDepth == 2

IsPrefix(base, p) == Len(base) <= Len(p) /\ SubSeq(p, 1, Len(base)) = base

\* os.path.realpath, as Path.resolve() (strict=False) uses it: ".." pops the
\* resolved prefix, links are followed, missing components are kept
RECURSIVE JoinRealPath(_, _, _, _)
JoinRealPath(f, cur, rest, fuel) ==
  IF rest = <<>> THEN cur
  ELSE LET seg == Head(rest) IN
       IF seg = <<".", ".">>
       THEN JoinRealPath(f, IF cur = <<>> THEN <<>> ELSE Front(cur), Tail(rest), fuel)
       ELSE LET nxt == Append(cur, seg) IN
            IF nxt \in DOMAIN f /\ f[nxt].kind = "link" /\ fuel > 0
            THEN JoinRealPath(f, <<>>, f[nxt].to \o Tail(rest), fuel - 1)
            ELSE JoinRealPath(f, nxt, Tail(rest), fuel)

Resolve(f, p) == JoinRealPath(f, <<>>, p, MaxLinkDepth)

\* the kernel's path walk behind stat(): every component has to exist and
\* every component but the last has to be a directory
RECURSIVE Namei(_, _, _, _)
Namei(f, cur, rest, fuel) ==
  IF cur \notin DOMAIN f THEN ENOENT
  ELSE IF rest = <<>> THEN cur
  ELSE IF f[cur].kind # "dir" THEN ENOENT
  ELSE LET seg == Head(rest) IN
       IF seg = <<".", ".">>
       THEN Namei(f, IF cur = <<>> THEN <<>> ELSE Front(cur), Tail(rest), fuel)
       ELSE LET nxt == Append(cur, seg) IN
            IF nxt \in DOMAIN f /\ f[nxt].kind = "link"
            THEN IF fuel = 0 THEN ENOENT
                 ELSE Namei(f, <<>>, f[nxt].to \o Tail(rest), fuel - 1)
            ELSE Namei(f, nxt, Tail(rest), fuel)

Stat(f, p) == Namei(f, <<>>, p, MaxLinkDepth)

Exists(f, p) == Stat(f, p) # ENOENT

IsDir(f, p) == Exists(f, p) /\ f[Stat(f, p)].kind = "dir"

IsFile(f, p) == Exists(f, p) /\ f[Stat(f, p)].kind = "file"

\* lstat: the last component is not followed
IsSymlink(f, p) ==
  /\ p # <<>>
  /\ Last(p) # <<".", ".">>
  /\ LET par == Stat(f, Front(p)) IN
     /\ par # ENOENT
     /\ Append(par, Last(p)) \in DOMAIN f
     /\ f[Append(par, Last(p))].kind = "link"

\* Path.iterdir(): d / name for every entry of the directory d
IterDir(f, d) ==
  LET real == Stat(f, d) IN
  IF real = ENOENT THEN {}
  ELSE { Append(d, Last(q)) : q \in { r \in DOMAIN f : r # <<>> /\ Front(r) = real } }

\* a new entry p; its parent directory is modified at time t
AddNode(f, p, node, t) ==
  [q \in DOMAIN f \cup {p} |->
     IF q = p THEN node
     ELSE IF p # <<>> /\ q = Front(p) /\ f[q].kind = "dir"
          THEN [f[q] EXCEPT !.mtime = t]
          ELSE f[q]]

\* Path.mkdir(parents=True, exist_ok=True) on a resolved path
RECURSIVE MkdirP(_, _, _)
MkdirP(f, p, t) ==
  IF p \in DOMAIN f
  THEN [err |-> f[p].kind # "dir", fs |-> f]
  ELSE LET r == MkdirP(f, Front(p), t) IN
       IF r.err THEN r ELSE [err |-> FALSE, fs |-> AddNode(r.fs, p, DirNode(t), t)]

\* open(p, "wb") + copyfileobj on a resolved path whose parent exists
WriteFile(f, p, d, t) ==
  IF p \in DOMAIN f /\ f[p].kind = "dir" THEN [err |-> TRUE, fs |-> f]
  ELSE IF p \in DOMAIN f
       THEN [err |-> FALSE, fs |-> [f EXCEPT ![p] = FileNode(d)]]
       ELSE [err |-> FALSE, fs |-> AddNode(f, p, FileNode(d), t)]

\* shutil.rmtree(p) / Path.unlink(): p and everything below it
RmTree(f, p, t) ==
  [q \in { r \in DOMAIN f : ~IsPrefix(p, r) } |->
     IF p # <<>> /\ q = Front(p) /\ f[q].kind = "dir"
     THEN [f[q] EXCEPT !.mtime = t]
     ELSE f[q]]

\* shutil.move(src, dst), dst not existing: a rename of the subtree
Move(f, src, dst, t) ==
  LET moved == { r \in DOMAIN f : IsPrefix(src, r) }
      rest  == RmTree(f, src, t)
      new   == { dst \o SubSeq(r, Len(src) + 1, Len(r)) : r \in moved }
  IN  [q \in DOMAIN rest \cup new |->
         IF q \in new THEN f[src \o SubSeq(q, Len(dst) + 1, Len(q))]
         ELSE IF q = Front(dst) THEN [rest[q] EXCEPT !.mtime = t]
         ELSE rest[q]]

----------------------------------------------------------------------------
(* utils.py: the sandbox *)

\* Path(".repos").resolve() with the working directory /srv
SAFE_ROOT == << <<"s","r","v">>, <<".","r","e","p","o","s">> >>

ensure_safe_root(f, t) == MkdirP(f, SAFE_ROOT, t).fs

is_within_base(path, base) == base = path \/ base \in Parents(path)

session_dir_path_unchecked(f, session_id, t) ==
  LET f1 == ensure_safe_root(f, t)
      d  == Resolve(f1, JoinPath(SAFE_ROOT, session_id))
  IN  [err |-> FALSE, d |-> d, fs |-> f1]

\* raises ValueError (err) unless the resolved directory is the root or below
session_dir_path(f, session_id, t) ==
  LET f1 == ensure_safe_root(f, t)
      d  == Resolve(f1, JoinPath(SAFE_ROOT, session_id))
  IN  IF SAFE_ROOT \notin Parents(d) /\ d # SAFE_ROOT
      THEN [err |-> TRUE, d |-> d, fs |-> f1]
      ELSE [err |-> FALSE, d |-> d, fs |-> f1]

session_dir(f, session_id, t) ==
  LET r == session_dir_path(f, session_id, t) IN
  IF r.err THEN r
  ELSE LET m == MkdirP(r.fs, r.d, t) IN [err |-> m.err, d |-> r.d, fs |-> m.fs]

\* every exception is swallowed; rmtree of something that is not a directory
\* raises from the onerror handler and removes nothing
clean_session(f, session_id, t) ==
  LET r == session_dir_path(f, session_id, t) IN
  IF r.err THEN r.fs
  ELSE IF Exists(r.fs, r.d) /\ r.fs[r.d].kind = "dir" THEN RmTree(r.fs, r.d, t)
  ELSE r.fs

----------------------------------------------------------------------------
(* utils.py: names *)

EXCLUDED_DIRS ==
  { <<".","g","i","t">>,
    <<".","g","i","t","h","u","b">>,
    <<".","g","i","t","l","a","b">>,
    <<".","s","v","n">>,
    <<".","h","g">>,
    <<"_","_","p","y","c","a","c","h","e","_","_">>,
    <<".","m","y","p","y","_","c","a","c","h","e">>,
    <<".","p","y","t","e","s","t","_","c","a","c","h","e">>,
    <<".","i","d","e","a">>,
    <<".","v","s","c","o","d","e">>,
    <<"n","o","d","e","_","m","o","d","u","l","e","s">>,
    <<"d","i","s","t">>,
    <<"b","u","i","l","d">>,
    <<"o","u","t">>,
    <<".","n","e","x","t">>,
    <<".","n","u","x","t">>,
    <<".","e","x","p","o">>,
    <<".","p","a","r","c","e","l","-","c","a","c","h","e">>,
    <<".","s","a","s","s","-","c","a","c","h","e">>,
    <<".","c","a","c","h","e">>,
    <<"c","o","v","e","r","a","g","e">>,
    <<"t","a","r","g","e","t">>,
    <<"b","i","n">>,
    <<"o","b","j">>,
    <<".","g","r","a","d","l","e">>,
    <<".","t","e","r","r","a","f","o","r","m">>,
    <<".","s","e","r","v","e","r","l","e","s","s">> }

EXCLUDED_FILES ==
  { <<".","D","S","_","S","t","o","r","e">>,
    <<"T","h","u","m","b","s",".","d","b">>,
    <<"d","e","s","k","t","o","p",".","i","n","i">> }

EXCLUDED_FILE_TYPES ==
  { <<".","p","n","g">>,
    <<".","j","p","g">>,
    <<".","j","p","e","g">>,
    <<".","g","i","f">>,
    <<".","b","m","p">>,
    <<".","s","v","g">>,
    <<".","i","c","o">>,
    <<".","i","c","n","s">>,
    <<".","j","a","r">>,
    <<".","w","a","r">>,
    <<".","e","a","r">>,
    <<".","c","l","a","s","s">>,
    <<".","p","y","c">>,
    <<".","p","y","o">>,
    <<".","z","i","p">>,
    <<".","t","a","r">>,
    <<".","g","z">>,
    <<".","t","g","z">>,
    <<".","b","z","2">>,
    <<".","x","z">>,
    <<".","l","o","g">>,
    <<".","t","m","p">>,
    <<".","s","w","p">>,
    <<".","s","w","o">>,
    <<".","l","o","c","k">>,
    <<".","e","n","v",".","l","o","c","a","l">>,
    <<".","e","n","v",".","p","r","o","d","u","c","t","i","o","n">>,
    <<".","e","n","v",".","d","e","v","e","l","o","p","m","e","n","t">> }

\* dot names that are listed all the same
DOT_ALLOWED ==
  { <<".","g","i","t","i","g","n","o","r","e">>,
    <<".","e","n","v",".","e","x","a","m","p","l","e">>,
    <<".","e","n","v",".","s","a","m","p","l","e">> }

IsHidden(name) == StartsWith(name, <<".">>) /\ name \notin DOT_ALLOWED

\* re.sub(r"[^\w.\-]+", "_", name)
IsSafeChar(c) == IsWordChar(c) \/ c = "." \/ c = "-"

UnsafeChars == { CodeOrder[i] : i \in { j \in 1..Len(CodeOrder) : ~IsSafeChar(CodeOrder[j]) } }

RECURSIVE SubUnsafeRuns(_)
SubUnsafeRuns(s) ==
  IF s = <<>> THEN <<>>
  ELSE IF IsSafeChar(s[1]) THEN <<s[1]>> \o SubUnsafeRuns(Tail(s))
  ELSE <<"_">> \o SubUnsafeRuns(LStrip(Tail(s), UnsafeChars))

safe_filename(name) ==
  LET n == SubUnsafeRuns(Strip(name, {" "})) IN
  IF n = <<>> THEN <<"u","p","l","o","a","d",".","z","i","p">> ELSE n

guess_repo_name_from_git_url(url) ==
  LET base == Last(Split(RStrip(Strip(url, {" "}), {"/"}), "/"))
      cut  == IF EndsWith(base, <<".","g","i","t">>)
              THEN SubSeq(base, 1, Len(base) - 4) ELSE base
  IN  IF cut = <<>> THEN <<"r","e","p","o","s","i","t","o","r","y">> ELSE cut

----------------------------------------------------------------------------
(* sorted() *)

\* a sort key is <<rank, string>>, compared as Python compares tuples
KeyLess(a, b) == a[1] < b[1] \/ (a[1] = b[1] /\ StrLess(a[2], b[2]))

\* items are [k |-> key, v |-> value]; equal keys keep their order
RECURSIVE InsertSorted(_, _)
InsertSorted(sorted, x) ==
  IF sorted = <<>> THEN <<x>>
  ELSE IF KeyLess(x.k, sorted[1].k) THEN <<x>> \o sorted
  ELSE <<sorted[1]>> \o InsertSorted(Tail(sorted), x)

RECURSIVE StableSort(_)
StableSort(items) ==
  IF items = <<>> THEN <<>>
  ELSE InsertSorted(StableSort(Front(items)), Last(items))

\* the order in which the filesystem hands out a set of paths: by name
RECURSIVE Enumerate(_)
Enumerate(paths) ==
  IF paths = {} THEN <<>>
  ELSE LET first == CHOOSE p \in paths :
                      \A q \in paths : q = p \/ StrLess(PathStr(p), PathStr(q))
       IN  <<first>> \o Enumerate(paths \ {first})

Values(items) == [i \in 1..Len(items) |-> items[i].v]

RelativeTo(p, base) == SubSeq(p, Len(base) + 1, Len(p))

\* str(p.relative_to(base)) with "/" separators; "." for the base itself
RelStr(p, base) == IF p = base THEN <<".">> ELSE JoinStr(RelativeTo(p, base), "/")

\* sorted() of a set of strings
RECURSIVE SortStrings(_)
SortStrings(S) ==
  IF S = {} THEN <<>>
  ELSE LET m == CHOOSE x \in S : \A y \in S : y = x \/ StrLess(x, y)
       IN  <<m>> \o SortStrings(S \ {m})

----------------------------------------------------------------------------
(* utils.py: list_files_and_extensions *)

NoNode == [name |-> <<>>, path |-> <<>>, type |-> "none", children |-> <<>>]

FileTreeNode(p, base_dir) ==
  [name |-> PathName(p), path |-> RelStr(p, base_dir), type |-> "file",
   children |-> <<>>]

\* the entries of one directory that pass the exclusion rules
walk_entries(f, base_dir, current) ==
  { p \in IterDir(f, current) :
      /\ ~IsSymlink(f, p)
      /\ ~IsHidden(PathName(p))
      /\ ~(IsDir(f, p) /\ PathName(p) \in EXCLUDED_DIRS)
      /\ ~(IsFile(f, p) /\ (\/ PathName(p) \in EXCLUDED_FILES
                            \/ Suffix(PathName(p)) \in EXCLUDED_FILE_TYPES))
      /\ is_within_base(Resolve(f, p), Resolve(f, base_dir)) }

SortEntries(f, paths) ==
  LET e == Enumerate(paths) IN
  Values(StableSort([i \in 1..Len(e) |->
     [k |-> <<IF IsFile(f, e[i]) THEN 1 ELSE 0, Lower(PathName(e[i]))>>,
      v |-> e[i]]]))

DirTreeNode(current, base_dir, children) ==
  [name |-> PathName(current),
   path |-> IF current # base_dir THEN RelStr(current, base_dir) ELSE <<>>,
   type |-> "directory",
   children |-> children]

\* a directory left without children is returned as it is
RECURSIVE walk_unpruned(_, _, _)
walk_unpruned(f, base_dir, current) ==
  LET entries  == SortEntries(f, walk_entries(f, base_dir, current))
      nodes    == [i \in 1..Len(entries) |->
                     IF IsDir(f, entries[i])
                     THEN walk_unpruned(f, base_dir, entries[i])
                     ELSE FileTreeNode(entries[i], base_dir)]
  IN  DirTreeNode(current, base_dir, nodes)

RECURSIVE walk(_, _, _)
walk(f, base_dir, current) ==
  LET entries  == SortEntries(f, walk_entries(f, base_dir, current))
      nodes    == [i \in 1..Len(entries) |->
                     IF IsDir(f, entries[i])
                     THEN walk(f, base_dir, entries[i])
                     ELSE FileTreeNode(entries[i], base_dir)]
      children == SelectSeq(nodes, LAMBDA n : n.type # "none")
  IN  IF current # base_dir /\ children = <<>> THEN NoNode
      ELSE DirTreeNode(current, base_dir, children)

RECURSIVE TreeNodes(_)
TreeNodes(node) ==
  {node} \cup UNION { TreeNodes(node.children[i]) : i \in 1..Len(node.children) }

list_files_and_extensions(f, base_dir) ==
  LET tree == walk(f, base_dir, base_dir)
      exts == { Suffix(n.name) : n \in { m \in TreeNodes(tree) : m.type = "file" } }
  IN  [tree |-> tree, extensions |-> SortStrings(exts \ {<<>>})]

----------------------------------------------------------------------------
(* utils.py: unzip_to *)

\* an archive is [size, valid, entries]; an entry is [filename, symlink, data]
member_is_dir(member) == EndsWith(member.filename, <<"/">>)

\* the member is written wherever its name resolves to
extract_member_unconfined(f, dir_path, base_resolved, member, t) ==
  IF member.symlink THEN [err |-> FALSE, fs |-> f]
  ELSE IF IsAbsolute(member.filename) THEN [err |-> FALSE, fs |-> f]
  ELSE LET target_path == Resolve(f, dir_path \o PathParts(member.filename)) IN
       IF member_is_dir(member) THEN MkdirP(f, target_path, t)
       ELSE LET m == MkdirP(f, Front(target_path), t) IN
            IF m.err THEN m ELSE WriteFile(m.fs, target_path, member.data, t)

\* one member of the archive; err is an exception leaving the loop
extract_member(f, dir_path, base_resolved, member, t) ==
  IF member.symlink THEN [err |-> FALSE, fs |-> f]
  ELSE IF IsAbsolute(member.filename) THEN [err |-> FALSE, fs |-> f]
  ELSE LET target_path == Resolve(f, dir_path \o PathParts(member.filename)) IN
       IF ~is_within_base(target_path, base_resolved) THEN [err |-> FALSE, fs |-> f]
       ELSE IF member_is_dir(member) THEN MkdirP(f, target_path, t)
       ELSE LET m == MkdirP(f, Front(target_path), t) IN
            IF m.err THEN m ELSE WriteFile(m.fs, target_path, member.data, t)

RECURSIVE extract_all(_, _, _, _, _)
extract_all(f, dir_path, base_resolved, members, t) ==
  IF members = <<>> THEN [err |-> FALSE, fs |-> f]
  ELSE LET r == extract_member(f, dir_path, base_resolved, Head(members), t) IN
       IF r.err THEN r
       ELSE extract_all(r.fs, dir_path, base_resolved, Tail(members), t)

MACOSX == <<"_","_","M","A","C","O","S","X">>

unzip_to(f, dir_path, zip_file_path, zip, t) ==
  IF ~Exists(f, zip_file_path) \/ zip.size = 0
  THEN [err |-> TRUE, fs |-> f, root |-> dir_path]
  ELSE LET m == MkdirP(f, dir_path, t) IN
       IF m.err \/ ~zip.valid THEN [err |-> TRUE, fs |-> m.fs, root |-> dir_path]
       ELSE LET x == extract_all(m.fs, dir_path, Resolve(m.fs, dir_path),
                                 zip.entries, t)
                entries == { p \in IterDir(x.fs, dir_path) :
                               /\ ~StartsWith(PathName(p), MACOSX)
                               /\ ~StartsWith(PathName(p), <<".">>) }
            IN  IF x.err THEN [err |-> TRUE, fs |-> x.fs, root |-> dir_path]
                ELSE IF Cardinality(entries) = 1
                        /\ \A p \in entries : IsDir(x.fs, p)
                     THEN [err |-> FALSE, fs |-> x.fs,
                           root |-> CHOOSE p \in entries : TRUE]
                     ELSE [err |-> FALSE, fs |-> x.fs, root |-> dir_path]

----------------------------------------------------------------------------
(* utils.py: collect_files_for_export *)

is_in_selected_dir_any_prefix(rel_path, selected_dirs_set) ==
  \/ selected_dirs_set = {}
  \/ <<>> \in selected_dirs_set
  \/ \E d \in selected_dirs_set : rel_path = d \/ StartsWith(rel_path, d)

is_in_selected_dir(rel_path, selected_dirs_set) ==
  \/ selected_dirs_set = {}
  \/ <<>> \in selected_dirs_set
  \/ \E d \in selected_dirs_set : rel_path = d \/ StartsWith(rel_path, d \o <<"/">>)

is_allowed_file_unresolved(f, base_dir, path_obj) ==
  LET name      == PathName(path_obj)
      rel_parts == RelativeTo(path_obj, base_dir)
  IN  /\ ~IsSymlink(f, path_obj)
      /\ \A i \in 1..(Len(rel_parts) - 1) :
            ~(rel_parts[i] \in EXCLUDED_DIRS \/ IsHidden(rel_parts[i]))
      /\ ~IsHidden(name)
      /\ ~(name \in EXCLUDED_FILES \/ Suffix(name) \in EXCLUDED_FILE_TYPES)

\* only the name of the file itself is tested, not the directories above it
is_allowed_file_own_name_only(f, base_dir, path_obj) ==
  LET name      == PathName(path_obj)
  IN  /\ ~IsSymlink(f, path_obj)
      /\ ~IsHidden(name)
      /\ ~(name \in EXCLUDED_FILES \/ Suffix(name) \in EXCLUDED_FILE_TYPES)
      /\ is_within_base(Resolve(f, path_obj), Resolve(f, base_dir))

is_allowed_file(f, base_dir, path_obj) ==
  LET name      == PathName(path_obj)
      rel_parts == RelativeTo(path_obj, base_dir)
  IN  /\ ~IsSymlink(f, path_obj)
      /\ \A i \in 1..(Len(rel_parts) - 1) :
            ~(rel_parts[i] \in EXCLUDED_DIRS \/ IsHidden(rel_parts[i]))
      /\ ~IsHidden(name)
      /\ ~(name \in EXCLUDED_FILES \/ Suffix(name) \in EXCLUDED_FILE_TYPES)
      /\ is_within_base(Resolve(f, path_obj), Resolve(f, base_dir))

\* base_dir.rglob("*"): everything below base_dir; "**" does not descend
\* into symbolic links
RGlob(f, base_dir) ==
  LET real == Stat(f, base_dir) IN
  IF real = ENOENT THEN {}
  ELSE { base_dir \o RelativeTo(q, real) :
           q \in { r \in DOMAIN f : IsPrefix(real, r) /\ r # real } }

\* sorted(files_to_export, key=lambda x: str(x).lower())
SortPaths(paths) ==
  Values(StableSort([i \in 1..Len(paths) |->
     [k |-> <<0, Lower(PathStr(paths[i]))>>, v |-> paths[i]]]))

\* err: relative_to() raises for a path that is not below base_dir
collect_files_for_export(f, base_dir, selected_dirs, selected_exts, selected_files) ==
  LET selected_dirs_set  == { Strip(d, {"/"}) : d \in selected_dirs }
      selected_files_set == { Strip(x, {"/"}) : x \in selected_files }
  IN
  IF selected_files_set # {}
  THEN LET listed     == SortStrings(selected_files_set)
           candidates == [i \in 1..Len(listed) |-> JoinPath(base_dir, listed[i])]
           regular    == SelectSeq(candidates,
                                   LAMBDA c : Exists(f, c) /\ IsFile(f, c))
       IN  IF \E i \in 1..Len(regular) : ~IsPrefix(base_dir, regular[i])
           THEN [err |-> TRUE, files |-> <<>>]
           ELSE [err |-> FALSE,
                 files |-> SortPaths(SelectSeq(regular,
                              LAMBDA c : is_allowed_file(f, base_dir, c)))]
  ELSE LET found == Enumerate({ p \in RGlob(f, base_dir) : IsFile(f, p) })
           kept  == SelectSeq(found, LAMBDA p :
                      /\ is_allowed_file(f, base_dir, p)
                      /\ is_in_selected_dir(RelStr(p, base_dir), selected_dirs_set)
                      /\ (selected_exts = {} \/ Suffix(PathName(p)) \in selected_exts))
       IN  [err |-> FALSE, files |-> SortPaths(kept)]

----------------------------------------------------------------------------
(* utils.py: _tree_lines, render_markdown_pages *)

\* a line of text is [text, blob]: its characters, and the number of bytes of
\* file content it carries; characters outside ASCII are written "uXXXX"
Line(text) == [text |-> text, blob |-> 0]

ContentLine(n) == [text |-> <<>>, blob |-> n]

\* the characters in use that take three bytes in UTF-8: box drawing, the
\* dash, Hangul syllables ("u0060" is the ASCII backquote)
WIDE_CHARS ==
  { "u2014", "u2500", "u2502", "u2514", "u251C", "uB2C8",
    "uB2E4", "uB41C", "uC120", "uC2B5", "uC5C6", "uC774",
    "uC77C", "uD0DD", "uD30C" }

\* len(c.encode("utf-8"))
Utf8Len(c) == IF c \in WIDE_CHARS THEN 3 ELSE 1

\* len(text.encode("utf-8"))
Utf8Bytes(text) ==
  Len(text) + 2 * Cardinality({ i \in 1..Len(text) : Utf8Len(text[i]) = 3 })

LineBytes(line) == Utf8Bytes(line.text) + line.blob

\* the children of the tree node at pre, in dictionary (first-seen) order:
\* <<name, is_file>> keys
RECURSIVE ChildKeys(_, _)
ChildKeys(paths, pre) ==
  IF paths = <<>> THEN <<>>
  ELSE LET rest == ChildKeys(Front(paths), pre)
           p    == Last(paths)
       IN  IF IsPrefix(pre, p) /\ Len(p) > Len(pre)
           THEN LET key == << p[Len(pre) + 1], Len(p) = Len(pre) + 1 >> IN
                IF \E i \in 1..Len(rest) : rest[i] = key THEN rest
                ELSE Append(rest, key)
           ELSE rest

\* the paths that run through the child key of the node at pre
Through(paths, pre, key) ==
  SelectSeq(paths, LAMBDA p :
     /\ IsPrefix(Append(pre, key[1]), p)
     /\ (Len(p) = Len(pre) + 1) = key[2])

BRANCH == <<"u251C","u2500","u2500"," ">>

CORNER == <<"u2514","u2500","u2500"," ">>

PIPE == <<"u2502"," "," "," ">>

BLANK == <<" "," "," "," ">>

RECURSIVE emit_tree(_, _, _)
emit_tree(paths, pre, prefix) ==
  LET keys  == ChildKeys(paths, pre)
      items == Values(StableSort([i \in 1..Len(keys) |->
                 [k |-> <<IF keys[i][2] THEN 1 ELSE 0, Lower(keys[i][1])>>,
                  v |-> keys[i]]]))
      RECURSIVE Emit(_)
      Emit(idx) ==
        IF idx > Len(items) THEN <<>>
        ELSE LET key  == items[idx]
                 last == idx = Len(items)
                 sub  == Through(paths, pre, key)
             IN  << Line(prefix \o (IF last THEN CORNER ELSE BRANCH) \o key[1]) >>
                 \o (IF ~key[2] /\ ChildKeys(sub, Append(pre, key[1])) # <<>>
                     THEN emit_tree(sub, Append(pre, key[1]),
                                    prefix \o (IF last THEN BLANK ELSE PIPE))
                     ELSE <<>>)
                 \o Emit(idx + 1)
  IN  Emit(1)

FENCE == <<"u0060","u0060","u0060">>

tree_lines(base_dir, files) ==
  LET rel_paths == [i \in 1..Len(files) |-> RelativeTo(files[i], base_dir)] IN
  << Line(<<"#","#"," ","P","r","o","j","e","c","t"," ","T","r","e","e">>), Line(FENCE) >>
  \o emit_tree(rel_paths, <<>>, <<>>)
  \o << Line(FENCE), Line(<<>>) >>

block_size(lines) ==
  LET RECURSIVE Sum(_)
      Sum(k) == IF k = 0 THEN 0 ELSE LineBytes(lines[k]) + 1 + Sum(k - 1)
  IN  Sum(Len(lines))

\* the variables of the paginator: pages, current, current_bytes
NoPages == [pages |-> <<>>, current |-> <<>>, current_bytes |-> 0]

flush_page(st) ==
  IF st.current # <<>>
  THEN [pages |-> Append(st.pages, st.current), current |-> <<>>, current_bytes |-> 0]
  ELSE st

\* a block that does not fit is added to the current page all the same
add_block_no_flush(st, block, max_page_bytes) ==
  [st EXCEPT !.current = st.current \o block,
             !.current_bytes = st.current_bytes + block_size(block)]

\* every block starts a page of its own
add_block_one_per_page(st, block, max_page_bytes) ==
  LET size == block_size(block)
      s1   == IF st.current # <<>> THEN flush_page(st) ELSE st
  IN  [s1 EXCEPT !.current = s1.current \o block,
                 !.current_bytes = s1.current_bytes + size]

\* a block larger than the budget stays on the current page
add_block_keep_oversized(st, block, max_page_bytes) ==
  LET size == block_size(block)
      s1   == IF st.current # <<>> /\ st.current_bytes + size > max_page_bytes
                 /\ size <= max_page_bytes
              THEN flush_page(st) ELSE st
  IN  [s1 EXCEPT !.current = s1.current \o block,
                 !.current_bytes = s1.current_bytes + size]

add_block(st, block, max_page_bytes) ==
  LET size == block_size(block)
      s1   == IF st.current # <<>> /\ st.current_bytes + size > max_page_bytes
              THEN flush_page(st) ELSE st
  IN  [s1 EXCEPT !.current = s1.current \o block,
                 !.current_bytes = s1.current_bytes + size]

preamble_lines(repo_name) ==
  << Line(<<"#", " ">> \o repo_name), Line(<<>>),
     Line(<<"T","r","e","a","t"," ","t","h","e"," ","p","r","o","j","e","c",
            "t"," ","t","r","e","e"," ","a","n","d"," ","s","o","u","r","c",
            "e"," ","c","o","d","e"," ","b","e","l","o","w"," ","a","s"," ",
            "t","h","e"," ","s","i","n","g","l","e"," ","s","o","u","r","c",
            "e"," ","o","f"," ","t","r","u","t","h"," ","f","o","r"," ","t",
            "h","i","s"," ","s","e","s","s","i","o","n",".">>),
     Line(<<"C","r","e","a","t","e"," ","a","n"," ","i","n","t","e","r","n",
            "a","l"," ","s","t","r","u","c","t","u","r","e","d"," ","s","u",
            "m","m","a","r","y"," ","o","f"," ","t","h","e"," ","r","e","p",
            "o","s","i","t","o","r","y"," ","a","n","d"," ","r","e","l","y",
            " ","o","n"," ","i","t"," ","f","o","r"," ","a","l","l"," ","a",
            "n","s","w","e","r","s",".">>),
     Line(<<"A","l","l"," ","r","e","s","p","o","n","s","e","s"," ","m","u",
            "s","t"," ","s","t","a","y"," ","f","u","l","l","y"," ","c","o",
            "n","s","i","s","t","e","n","t"," ","w","i","t","h"," ","t","h",
            "e"," ","c","o","d","e","b","a","s","e","u2014","d","o"," ","n",
            "o","t"," ","i","n","v","e","n","t"," ","d","e","t","a","i","l",
            "s"," ","n","o","t"," ","p","r","e","s","e","n","t"," ","h","e",
            "r","e",".">>),
     Line(<<"I","f"," ","I"," ","p","r","o","v","i","d","e"," ","u","p","d",
            "a","t","e","d"," ","f","i","l","e","s"," ","l","a","t","e","r",
            ","," ","u","p","d","a","t","e"," ","y","o","u","r"," ","i","n",
            "t","e","r","n","a","l"," ","m","o","d","e","l"," ","a","n","d",
            " ","b","r","i","e","f","l","y"," ","d","e","s","c","r","i","b",
            "e"," ","t","h","e"," ","c","h","a","n","g","e","s",".">>),
     Line(<<>>) >>

\* f.read_text(): the content is one element of the block, whatever its size
file_block(f, base_dir, p) ==
  << Line(<<"#","#","#"," ","u0060">> \o RelStr(p, base_dir) \o <<"u0060">>),
     Line(FENCE \o LStrip(Suffix(PathName(p)), {"."})),
     ContentLine(f[Stat(f, p)].data),
     Line(FENCE),
     Line(<<>>) >>

NOTHING_SELECTED == <<"_","uC120","uD0DD","uB41C"," ","uD30C","uC77C","uC774"," ","uC5C6","uC2B5","uB2C8","uB2E4",".","_">>

\* a page is given as the sequence of lines that "\n".join() makes it of
render_markdown_pages(f, repo_name, base_dir, files, max_page_bytes) ==
  IF files = <<>>
  THEN << << Line(<<"#", " ">> \o repo_name), Line(<<>>), Line(NOTHING_SELECTED) >> >>
  ELSE LET preamble == preamble_lines(repo_name) \o tree_lines(base_dir, files)
           s1 == add_block(NoPages, preamble, max_page_bytes)
           s2 == add_block(s1, << Line(<<"#","#"," ","F","i","l","e","s">>) >>, max_page_bytes)
           RECURSIVE AddFiles(_, _)
           AddFiles(st, k) ==
             IF k > Len(files) THEN st
             ELSE AddFiles(add_block(st, file_block(f, base_dir, files[k]),
                                     max_page_bytes), k + 1)
           s3 == flush_page(AddFiles(s2, 1))
       IN  IF s3.pages = <<>> THEN << << Line(<<>>) >> >> ELSE s3.pages

----------------------------------------------------------------------------
(* services.py *)

\* Body at the value of v: an assignment to a local variable, v evaluated once
With(v, Body(_)) == CHOOSE r \in { Body(x) : x \in {v} } : TRUE

\* Path.touch(): sets the modification time
Touch(f, p, t) == [f EXCEPT ![p].mtime = t]

\* the files a process wrote below root: entries are [rel, node]
PutTree(f, root, entries, t) ==
  LET paths == { root \o e.rel : e \in entries }
      dirs  == {root} \cup
               UNION { { d \in Parents(q) : IsPrefix(root, d) } : q \in paths }
  IN  [q \in DOMAIN f \cup dirs \cup paths |->
         IF q \in paths THEN (CHOOSE e \in entries : root \o e.rel = q).node
         ELSE IF q \in dirs THEN DirNode(t)
         ELSE IF q = Front(root) THEN [f[q] EXCEPT !.mtime = t]
         ELSE f[q]]

\* git is the run of "git clone": [outcome, wrote, content]; outcome is "ok",
\* "failed" (CalledProcessError) or "timeout" (TimeoutExpired), wrote tells
\* whether the target directory was written, content is what was written
clone_repo_to_session(f, session_id, repo_url, git, t) ==
  With(session_dir(f, session_id, t), LAMBDA b :
  IF b.err
  THEN [err |-> "Exception", fs |-> b.fs, base |-> b.d, target |-> <<>>, repo_name |-> <<>>]
  ELSE
  With(safe_filename(guess_repo_name_from_git_url(repo_url)), LAMBDA repo_name :
  With(Resolve(b.fs, JoinPath(b.d, repo_name)), LAMBDA target :
  IF b.d \notin Parents(target)
  THEN [err |-> "RuntimeError", fs |-> b.fs, base |-> b.d,
        target |-> target, repo_name |-> repo_name]
  ELSE
  With(IF Exists(b.fs, target) THEN RmTree(b.fs, target, t) ELSE b.fs, LAMBDA f1 :
  With(IF git.wrote THEN PutTree(f1, target, git.content, t) ELSE f1, LAMBDA f2 :
  IF git.outcome = "ok"
  THEN [err |-> "none", fs |-> f2, base |-> b.d,
        target |-> target, repo_name |-> repo_name]
  ELSE [err |-> "RuntimeError",
        fs |-> IF Exists(f2, target) THEN RmTree(f2, target, t) ELSE f2,
        base |-> b.d, target |-> target, repo_name |-> repo_name])))))

analyze_repo_path(f, repo_path, repo_name) ==
  With(list_files_and_extensions(f, repo_path), LAMBDA r :
  [repo_name |-> repo_name, extensions |-> r.extensions, dirs_tree |-> r.tree])

\* the loop that empties the session directory: rmtree for what is_dir()
\* holds of (it refuses a link to a directory, errors ignored), unlink else
RECURSIVE RemoveItems(_, _, _)
RemoveItems(f, items, t) ==
  IF items = {} THEN f
  ELSE With(CHOOSE i \in items : TRUE, LAMBDA item :
       With(IF IsDir(f, item) /\ IsSymlink(f, item) THEN f ELSE RmTree(f, item, t),
            LAMBDA f1 :
       With(items \ {item}, LAMBDA rest : RemoveItems(f1, rest, t))))

RECURSIVE MoveItems(_, _, _, _)
MoveItems(f, items, target_root, t) ==
  IF items = {} THEN f
  ELSE With(CHOOSE i \in items : TRUE, LAMBDA item :
       With(IF item = target_root THEN f
            ELSE Move(f, item, Append(target_root, PathName(item)), t),
            LAMBDA f1 :
       With(items \ {item}, LAMBDA rest : MoveItems(f1, rest, target_root, t))))

\* PurePath.stem
Stem(name) == SubSeq(name, 1, Len(name) - Len(Suffix(name)))

unpack_zip_to_session(f, session_id, uploaded_zip_path, zip, t) ==
  With(session_dir(f, session_id, t), LAMBDA b :
  IF b.err THEN [err |-> TRUE, fs |-> b.fs, base |-> b.d, repo_root |-> <<>>, repo_name |-> <<>>]
  ELSE
  With(IterDir(b.fs, b.d), LAMBDA items :
  With(RemoveItems(b.fs, items, t), LAMBDA f1 :
  With(unzip_to(f1, b.d, uploaded_zip_path, zip, t), LAMBDA u :
  IF u.err
  THEN [err |-> TRUE, fs |-> u.fs, base |-> b.d, repo_root |-> <<>>, repo_name |-> <<>>]
  ELSE IF u.root = b.d
  THEN With(safe_filename(Stem(PathName(uploaded_zip_path))), LAMBDA fallback_name :
       With(Resolve(u.fs, JoinPath(b.d, fallback_name)), LAMBDA target_root :
       With(MkdirP(u.fs, target_root, t), LAMBDA m :
       IF m.err
       THEN [err |-> TRUE, fs |-> m.fs, base |-> b.d,
             repo_root |-> <<>>, repo_name |-> <<>>]
       ELSE With(IterDir(m.fs, b.d), LAMBDA moved :
            [err |-> FALSE,
             fs |-> MoveItems(m.fs, moved, target_root, t),
             base |-> b.d, repo_root |-> target_root,
             repo_name |-> PathName(target_root)]))))
  ELSE [err |-> FALSE, fs |-> u.fs, base |-> b.d, repo_root |-> u.root,
        repo_name |-> PathName(u.root)]))))

----------------------------------------------------------------------------
(* main.py *)

MD_PAGE_BYTES == 2 * 1024 * 1024

\* what a handler answers; the fields a handler does not set keep these
\* values; pre is the filesystem the request found
Response(op) ==
  [op |-> op, status |-> 200, base |-> <<>>, repo_dir |-> <<>>,
   enumerated |-> FALSE, files |-> <<>>, pages |-> <<>>, filename |-> <<>>,
   repo_name |-> <<>>, extensions |-> <<>>, dirs_tree |-> NoNode,
   pre |-> <<>>]

\* POST /analyze
analyze_repo(f, x_session_id, repo_url, git, t) ==
  With(session_dir(f, x_session_id, t), LAMBDA s0 :
  IF s0.err THEN [fs |-> s0.fs, resp |-> [Response("analyze_repo") EXCEPT !.status = 500]]
  ELSE
  With(Touch(s0.fs, s0.d, t), LAMBDA f1 :
  With(clone_repo_to_session(f1, x_session_id, repo_url, git, t), LAMBDA c :
  IF c.err = "RuntimeError"
  THEN [fs |-> c.fs,
        resp |-> [Response("analyze_repo") EXCEPT
                    !.status = 400, !.base = c.base, !.repo_dir = c.target]]
  ELSE IF c.err # "none"
  THEN [fs |-> c.fs,
        resp |-> [Response("analyze_repo") EXCEPT !.status = 500, !.base = c.base]]
  ELSE With(analyze_repo_path(c.fs, c.target, c.repo_name), LAMBDA data :
       [fs |-> c.fs,
        resp |-> [Response("analyze_repo") EXCEPT
                    !.base = c.base, !.repo_dir = c.target,
                    !.enumerated = TRUE,
                    !.repo_name = data.repo_name,
                    !.extensions = data.extensions,
                    !.dirs_tree = data.dirs_tree]]))))

\* tempfile.NamedTemporaryFile(suffix=".zip", prefix="repo2md_<session>_"):
\* rnd stands for the random part of the name
TempName(x_session_id, rnd) ==
  <<"r","e","p","o","2","m","d","_">> \o x_session_id \o <<"_">> \o rnd \o <<".","z","i","p">>

\* tempfile.gettempdir()
TempDir == << <<"t","m","p">> >>

Unlink(f, p, t) == IF Exists(f, p) THEN RmTree(f, p, t) ELSE f

Forget(reg, key) == [k \in DOMAIN reg \ {key} |-> reg[k]]

\* POST /analyze_zip: upload is the archive [size, valid, entries]
analyze_zip(f, reg, x_session_id, upload, rnd, t) ==
  LET Fail(f1, reg1, base) ==
        [fs |-> f1, uploaded_paths |-> reg1,
         resp |-> [Response("analyze_zip") EXCEPT !.status = 500, !.base = base]]
  IN
  With(session_dir(f, x_session_id, t), LAMBDA s0 :
  IF s0.err THEN Fail(s0.fs, reg, <<>>)
  ELSE
  With(Touch(s0.fs, s0.d, t), LAMBDA f1 :
  \* 1) the temporary file; a "/" in the prefix names a missing directory
  IF "/" \in SeqRange(x_session_id) THEN Fail(f1, reg, s0.d)
  ELSE
  With(Append(TempDir, TempName(x_session_id, rnd)), LAMBDA upload_path :
  With((x_session_id :> upload_path) @@ reg, LAMBDA reg1 :
  \* 2) save
  With(WriteFile(f1, upload_path, upload.size, t).fs, LAMBDA f2 :
  \* 3) the check after saving: raised outside the try/finally
  IF upload.size = 0 THEN Fail(f2, reg1, s0.d)
  ELSE
  \* 4) unpack and analyse, 5) finally: delete the upload, forget it
  With(unpack_zip_to_session(f2, x_session_id, upload_path, upload, t), LAMBDA u :
  With(Unlink(u.fs, upload_path, t), LAMBDA f3 :
  IF u.err
  THEN Fail(f3, Forget(reg1, x_session_id), s0.d)
  ELSE With(analyze_repo_path(u.fs, u.repo_root, u.repo_name), LAMBDA data :
       [fs |-> f3,
        uploaded_paths |-> Forget(reg1, x_session_id),
        resp |-> [Response("analyze_zip") EXCEPT
                    !.base = s0.d, !.repo_dir = u.repo_root, !.enumerated = TRUE,
                    !.repo_name = data.repo_name,
                    !.extensions = data.extensions,
                    !.dirs_tree = data.dirs_tree]]))))))))

\* max(candidates, key=lambda d: d.stat().st_mtime): the first of the newest
NewestDir(f, candidates) ==
  With(Enumerate(candidates), LAMBDA e :
  e[CHOOSE k \in 1..Len(e) :
      /\ \A j \in 1..Len(e) : f[Stat(f, e[j])].mtime <= f[Stat(f, e[k])].mtime
      /\ \A j \in 1..(k - 1) : f[Stat(f, e[j])].mtime < f[Stat(f, e[k])].mtime])

\* the lines export_text and export_file share: the repository directory,
\* the selection and the pages
export_pages(f, op, x_session_id, req, t) ==
  With(session_dir(f, x_session_id, t), LAMBDA s0 :
  IF s0.err THEN [fs |-> s0.fs, resp |-> [Response(op) EXCEPT !.status = 500]]
  ELSE
  With(Touch(s0.fs, s0.d, t), LAMBDA f1 :
  With(s0.d, LAMBDA base :
  With(JoinPath(base, req.repo_name), LAMBDA named :
  With({ d \in IterDir(f1, base) : IsDir(f1, d) }, LAMBDA candidates :
  IF ~Exists(f1, named) /\ candidates = {}
  THEN [fs |-> f1, resp |-> [Response(op) EXCEPT !.status = 400, !.base = base]]
  ELSE
  With(IF Exists(f1, named) THEN named ELSE NewestDir(f1, candidates), LAMBDA repo_dir :
  With(collect_files_for_export(f1, repo_dir, req.dirs, req.exts, req.files), LAMBDA c :
  IF c.err
  THEN [fs |-> f1,
        resp |-> [Response(op) EXCEPT !.status = 500, !.base = base,
                    !.repo_dir = repo_dir, !.enumerated = TRUE]]
  ELSE IF c.files = <<>>
  THEN [fs |-> f1,
        resp |-> [Response(op) EXCEPT !.status = 400, !.base = base,
                    !.repo_dir = repo_dir, !.enumerated = TRUE]]
  ELSE [fs |-> f1,
        resp |-> [Response(op) EXCEPT !.base = base,
                    !.repo_dir = repo_dir, !.enumerated = TRUE,
                    !.repo_name = req.repo_name,
                    !.files = c.files,
                    !.pages = render_markdown_pages(f1, req.repo_name, repo_dir,
                                                    c.files, MD_PAGE_BYTES)]])))))))

\* POST /export/text
export_text(f, x_session_id, req, t) == export_pages(f, "export_text", x_session_id, req, t)

\* POST /export/file
export_file(f, x_session_id, req, t) ==
  With(export_pages(f, "export_file", x_session_id, req, t), LAMBDA r :
  IF r.resp.status # 200 THEN r
  ELSE [r EXCEPT !.resp.filename = req.repo_name \o <<"_","e","x","p","o","r","t",".","m","d">>])

\* the finally clause of ws_endpoint
ws_endpoint_finally(f, reg, session_id, t) ==
  With(clean_session(f, session_id, t), LAMBDA f1 :
  IF session_id \in DOMAIN reg
  THEN [fs |-> Unlink(f1, reg[session_id], t), uploaded_paths |-> Forget(reg, session_id)]
  ELSE [fs |-> f1, uploaded_paths |-> reg])

\* one round of session_gc_loop: clean_session(d.name) for the directories d
\* of the safe root in stale
RECURSIVE session_gc_round(_, _, _)
session_gc_round(f, stale, t) ==
  IF stale = {} THEN f
  ELSE With(CHOOSE x \in stale : TRUE, LAMBDA d :
       With(clean_session(f, PathName(d), t), LAMBDA f1 :
       With(stale \ {d}, LAMBDA rest : session_gc_round(f1, rest, t))))

----------------------------------------------------------------------------
(* names and filesystems the checks run on *)

n_srv    == <<"s","r","v">>
n_etc    == <<"e","t","c">>
n_tmp    == <<"t","m","p">>
n_s1     == <<"s","1">>
n_s2     == <<"s","2">>
n_repo   == <<"r","e","p","o">>
n_lnk    == <<"l","n","k">>
n_a_md   == <<"a",".","m","d">>
n_passwd == <<"p","a","s","s","w","d">>
n_up_zip == <<"u","p",".","z","i","p">>
n_dotdot == <<".",".">>
n_dot    == <<".">>

SeqsUpTo(S, n) == UNION { [1..k -> S] : k \in 0..n }

\* a server that has not served anything yet
FsEmpty ==
  ( <<>> :> DirNode(0) ) @@ ( <<n_srv>> :> DirNode(0) ) @@
  ( <<n_etc>> :> DirNode(0) ) @@ ( <<n_etc, n_passwd>> :> FileNode(7) ) @@
  ( <<n_tmp>> :> DirNode(0) )

\* session s1 holds a cloned repository with a link out of the sandbox,
\* session s2 a plain one
FsCloned ==
  FsEmpty @@
  ( SAFE_ROOT :> DirNode(0) ) @@
  ( SAFE_ROOT \o <<n_s1>> :> DirNode(0) ) @@
  ( SAFE_ROOT \o <<n_s1, n_repo>> :> DirNode(0) ) @@
  ( SAFE_ROOT \o <<n_s1, n_repo, n_a_md>> :> FileNode(3) ) @@
  ( SAFE_ROOT \o <<n_s1, n_repo, n_lnk>> :> LinkNode(<<n_etc>>) ) @@
  ( SAFE_ROOT \o <<n_s2>> :> DirNode(0) ) @@
  ( SAFE_ROOT \o <<n_s2, n_repo>> :> DirNode(0) ) @@
  ( SAFE_ROOT \o <<n_s2, n_repo, n_a_md>> :> FileNode(4) )

NoRet == [op |-> "none"]

\* b is p or one of its proper ancestors, part by part
IsAncestorOrSelf(b, p) == Len(b) <= Len(p) /\ \A i \in 1..Len(b) : p[i] = b[i]

\* the entries outside dir are the same in f and g, modification times aside
SameOutside(f, g, dir) ==
  \A p \in DOMAIN f \cup DOMAIN g :
     ~IsAncestorOrSelf(dir, p) =>
        /\ p \in DOMAIN f /\ p \in DOMAIN g
        /\ f[p].kind = g[p].kind /\ f[p].data = g[p].data /\ f[p].to = g[p].to

----------------------------------------------------------------------------
(* session directories: session_dir_path, session_dir, clean_session *)

MaxSidSegs == 3

SidSegs == { n_s1, n_s2, n_repo, n_lnk, n_dotdot, n_dot }

SessionIds ==
  { (IF a THEN <<"/">> ELSE <<>>) \o JoinStr(segs, "/") :
      a \in BOOLEAN, segs \in SeqsUpTo(SidSegs, MaxSidSegs) }

InitSession ==
  /\ fs \in { FsEmpty, FsCloned }
  /\ now = 1
  /\ uploaded_paths = <<>>
  /\ call \in [ op : { "session_dir_path", "session_dir", "clean_session" },
                session_id : SessionIds ]
  /\ ret = NoRet

CallSessionDirPath ==
  /\ call.op = "session_dir_path" /\ ret.op = "none"
  /\ LET r == session_dir_path(fs, call.session_id, now + 1) IN
     /\ fs' = r.fs
     /\ ret' = [op |-> call.op, err |-> r.err, d |-> r.d, pre |-> fs]
  /\ now' = now + 1
  /\ UNCHANGED <<uploaded_paths, call>>

CallSessionDir ==
  /\ call.op = "session_dir" /\ ret.op = "none"
  /\ LET r == session_dir(fs, call.session_id, now + 1) IN
     /\ fs' = r.fs
     /\ ret' = [op |-> call.op, err |-> r.err, d |-> r.d, pre |-> fs]
  /\ now' = now + 1
  /\ UNCHANGED <<uploaded_paths, call>>

CallCleanSession ==
  /\ call.op = "clean_session" /\ ret.op = "none"
  /\ fs' = clean_session(fs, call.session_id, now + 1)
  /\ ret' = [op |-> call.op, err |-> FALSE,
             d |-> session_dir_path(fs, call.session_id, now + 1).d, pre |-> fs]
  /\ now' = now + 1
  /\ UNCHANGED <<uploaded_paths, call>>

NextSession == CallSessionDirPath \/ CallSessionDir \/ CallCleanSession

SpecSession == InitSession /\ [][NextSession]_vars

\* C2: session_dir_path either raises or returns a path whose resolved form
\* is the safe root or lies below it; session_dir and clean_session therefore
\* create and delete nothing outside the safe root; is_within_base(p, base)
\* is true iff base is p or a proper ancestor of p.
C2_SessionPathInsideSafeRoot ==
  ret.op # "none" =>
     /\ (ret.op # "clean_session" /\ ~ret.err) =>
           IsAncestorOrSelf(SAFE_ROOT, Resolve(fs, ret.d))
     /\ SameOutside(ret.pre, fs, SAFE_ROOT)
     /\ \A p \in DOMAIN fs \cup {ret.d}, b \in DOMAIN fs \cup {SAFE_ROOT} :
           is_within_base(p, b) <=> IsAncestorOrSelf(b, p)

\* a session identifier with a ".." segment was accepted and its directory
\* made below the safe root
C2_Witness ==
  /\ ret.op = "session_dir" /\ ~ret.err
  /\ n_dotdot \in { PathParts(call.session_id)[i] :
                      i \in 1..Len(PathParts(call.session_id)) }
  /\ ret.d # SAFE_ROOT
  /\ ret.d \in DOMAIN fs /\ ret.d \notin DOMAIN ret.pre

----------------------------------------------------------------------------
(* archive extraction: unzip_to *)

MaxZipEntries == 3

ZipDest == SAFE_ROOT \o <<n_s1>>

ZipFile == <<n_tmp, n_up_zip>>

\* the session directory s1 as unpack_zip_to_session leaves it for unzip_to:
\* empty; the upload sits in /tmp and session s2 holds a repository
FsUpload ==
  FsEmpty @@
  ( SAFE_ROOT :> DirNode(0) ) @@
  ( ZipDest :> DirNode(0) ) @@
  ( SAFE_ROOT \o <<n_s2>> :> DirNode(0) ) @@
  ( SAFE_ROOT \o <<n_s2, n_repo>> :> DirNode(0) ) @@
  ( SAFE_ROOT \o <<n_s2, n_repo, n_a_md>> :> FileNode(4) ) @@
  ( ZipFile :> FileNode(9) )

ZipMember(filename, symlink, data) ==
  [filename |-> filename, symlink |-> symlink, data |-> data]

ZipMembers ==
  { ZipMember(<<"r","e","p","o","/">>, FALSE, 0),
    ZipMember(<<"r","e","p","o","/","a",".","m","d">>, FALSE, 11),
    ZipMember(<<"R","E","A","D","M","E">>, FALSE, 12),
    ZipMember(<<".",".","/",".",".","/","e","s","c","a","p","e">>, FALSE, 13),
    ZipMember(<<".",".","/","s","2","/","r","e","p","o","/","a",".","m","d">>, FALSE, 14),
    ZipMember(<<"/","e","t","c","/","p","a","s","s","w","d">>, FALSE, 15),
    ZipMember(<<"r","e","p","o","/","l","n","k">>, TRUE, 16),
    ZipMember(<<"r","e","p","o","/","a",".","m","d","/","b">>, FALSE, 17),
    ZipMember(<<"x","/",".",".","/",".",".","/","s","1","/","i","n">>, FALSE, 18) }

Archives ==
  { [size |-> 9, valid |-> TRUE, entries |-> e] :
      e \in SeqsUpTo(ZipMembers, MaxZipEntries) }

InitZip ==
  /\ fs = FsUpload
  /\ now = 1
  /\ uploaded_paths = <<>>
  /\ call \in [ op : {"unzip_to"}, zip : Archives ]
  /\ ret = NoRet

CallUnzipTo ==
  /\ call.op = "unzip_to" /\ ret.op = "none"
  /\ LET r == unzip_to(fs, ZipDest, ZipFile, call.zip, now + 1) IN
     /\ fs' = r.fs
     /\ ret' = [op |-> call.op, err |-> r.err, root |-> r.root, pre |-> fs]
  /\ now' = now + 1
  /\ UNCHANGED <<uploaded_paths, call>>

NextZip == CallUnzipTo

SpecZip == InitZip /\ [][NextZip]_vars

\* the members unzip_to has to leave out
IsUnsafeMember(f, dest, m) ==
  \/ m.symlink
  \/ IsAbsolute(m.filename)
  \/ ~IsAncestorOrSelf(Resolve(f, dest), Resolve(f, dest \o PathParts(m.filename)))

SafeMembers(f, dest, zip) ==
  [zip EXCEPT !.entries = SelectSeq(zip.entries,
                                    LAMBDA m : ~IsUnsafeMember(f, dest, m))]

\* C3: unzip_to creates and overwrites nothing outside the destination root;
\* a member that is a symbolic link, has an absolute name or resolves outside
\* the destination is skipped without changing the outcome: the result
\* (error or not, repository root, files on disk) is that of the archive
\* without the skipped members, and when the extraction succeeds every other
\* member is on disk.
C3_UnzipStaysInsideDest ==
  ret.op = "unzip_to" =>
     /\ SameOutside(ret.pre, fs, ZipDest)
     /\ \A p \in DOMAIN ret.pre : p \in DOMAIN fs
     /\ LET safe == SafeMembers(ret.pre, ZipDest, call.zip)
            r    == unzip_to(ret.pre, ZipDest, ZipFile, safe, now)
        IN  /\ r.err = ret.err /\ r.root = ret.root /\ r.fs = fs
            /\ ~ret.err =>
                 \A i \in 1..Len(safe.entries) :
                    LET m == safe.entries[i]
                        q == Resolve(fs, ZipDest \o PathParts(m.filename))
                    IN  /\ q \in DOMAIN fs
                        /\ fs[q].kind = IF member_is_dir(m) THEN "dir" ELSE "file"

\* an archive with a member that escapes the destination, followed by an
\* ordinary member, was extracted without error
C3_Witness ==
  /\ ret.op = "unzip_to" /\ ~ret.err
  /\ \E i, j \in 1..Len(call.zip.entries) :
        /\ i < j
        /\ IsUnsafeMember(ret.pre, ZipDest, call.zip.entries[i])
        /\ ~IsUnsafeMember(ret.pre, ZipDest, call.zip.entries[j])
        /\ ~member_is_dir(call.zip.entries[j])
        /\ Resolve(fs, ZipDest \o PathParts(call.zip.entries[j].filename))
             \notin DOMAIN ret.pre

----------------------------------------------------------------------------
(* tree building and file selection over generated repositories *)

MaxRepoEntries == 3

RepoBase == SAFE_ROOT \o <<n_s1, n_repo>>

RepoEntry(rel, node) == [rel |-> rel, node |-> node]

\* what a repository directory may hold: listed and excluded files, excluded
\* and hidden directories at the top and below, directories without any
\* listed file, a link out of the sandbox
RepoEntries ==
  { RepoEntry(<<<<"a",".","m","d">>>>, FileNode(3)),
    RepoEntry(<<<<"B",".","p","y">>>>, FileNode(4)),
    RepoEntry(<<<<"s","r","c">>, <<"a",".","m","d">>>>, FileNode(5)),
    RepoEntry(<<<<"s","r","c">>, <<"x",".","l","o","g">>>>, FileNode(6)),
    RepoEntry(<<<<"s","r","c","2">>, <<"c",".","p","y">>>>, FileNode(7)),
    RepoEntry(<<<<"s","r","c">>, <<"b","i","n">>, <<"z",".","p","y">>>>, FileNode(8)),
    RepoEntry(<<<<".","g","i","t">>, <<"c","o","n","f","i","g">>>>, FileNode(9)),
    RepoEntry(<<<<"e">>, <<"f">>, <<"x",".","l","o","g">>>>, FileNode(10)),
    RepoEntry(<<<<"e">>, <<"g">>>>, DirNode(0)),
    RepoEntry(<<<<".","g","i","t","i","g","n","o","r","e">>>>, FileNode(11)),
    RepoEntry(<<<<"l","n","k">>>>, LinkNode(<<n_etc>>)) }

RepoFs(entries) ==
  LET base  == FsEmpty @@ ( SAFE_ROOT :> DirNode(0) ) @@
               ( SAFE_ROOT \o <<n_s1>> :> DirNode(0) ) @@ ( RepoBase :> DirNode(0) )
      paths == { RepoBase \o e.rel : e \in entries }
      dirs  == UNION { { d \in Parents(q) : IsPrefix(RepoBase, d) } : q \in paths }
  IN  [q \in DOMAIN base \cup dirs \cup paths |->
         IF q \in paths
         THEN (CHOOSE e \in entries : RepoBase \o e.rel = q).node
         ELSE IF q \in DOMAIN base THEN base[q] ELSE DirNode(0)]

Repos ==
  { RepoFs(es) : es \in { x \in SUBSET RepoEntries : Cardinality(x) <= MaxRepoEntries } }

DirChoices ==
  { {}, { <<>> }, { <<"/">> }, { <<"s","r","c">> }, { <<"s","r","c","/">>, <<"e">> }, { <<"s","r">> } }

ExtChoices == { {}, { <<".","m","d">> }, { <<".","p","y">>, <<".","l","o","g">> } }

FileChoices ==
  { {},
    { <<"a",".","m","d">>, <<".","/","a",".","m","d">>, <<"n","o","p","e">> },
    { <<"s","r","c","/","x",".","l","o","g">>, <<"/","s","r","c","/","a",".","m","d">>, <<"B",".","p","y">> },
    { <<".",".","/","r","e","p","o","/","a",".","m","d">>, <<"l","n","k","/","p","a","s","s","w","d">>, <<"/","e","t","c","/","p","a","s","s","w","d">> },
    { <<"s","r","c">>, <<".","g","i","t","i","g","n","o","r","e">>, <<"s","r","c","/","b","i","n","/","z",".","p","y">> } }

InitSelect ==
  /\ fs \in Repos
  /\ now = 1
  /\ uploaded_paths = <<>>
  /\ call \in [ op : {"collect_files_for_export"}, dirs : DirChoices,
                exts : ExtChoices, files : FileChoices ]
              \cup [ op : {"list_files_and_extensions"} ]
  /\ ret = NoRet

CallCollectFiles ==
  /\ call.op = "collect_files_for_export" /\ ret.op = "none"
  /\ LET r == collect_files_for_export(fs, RepoBase, call.dirs, call.exts, call.files)
     IN  ret' = [op |-> call.op, err |-> r.err, files |-> r.files]
  /\ UNCHANGED <<fs, now, uploaded_paths, call>>

CallListFiles ==
  /\ call.op = "list_files_and_extensions" /\ ret.op = "none"
  /\ LET r == list_files_and_extensions(fs, RepoBase)
     IN  ret' = [op |-> call.op, tree |-> r.tree, extensions |-> r.extensions]
  /\ UNCHANGED <<fs, now, uploaded_paths, call>>

NextSelect == CallCollectFiles \/ CallListFiles

SpecSelect == InitSelect /\ [][NextSelect]_vars

\* the exclusion rules, for a file at the relative path rel of the repository:
\* no ancestor segment names an excluded or hidden directory, the file is not
\* hidden, not an excluded name or type, and not a symbolic link
PassesExclusion(f, base, rel) ==
  /\ \A i \in 1..(Len(rel) - 1) : rel[i] \notin EXCLUDED_DIRS /\ ~IsHidden(rel[i])
  /\ ~IsHidden(Last(rel))
  /\ Last(rel) \notin EXCLUDED_FILES
  /\ Suffix(Last(rel)) \notin EXCLUDED_FILE_TYPES
  /\ ~IsSymlink(f, base \o rel)

\* the sandbox rule: the resolved path is the repository root or below it
PassesSandbox(f, base, rel) ==
  IsAncestorOrSelf(Resolve(f, base), Resolve(f, base \o rel))

SortedCaseInsensitively(files) ==
  \A i, j \in 1..Len(files) :
     i < j => ~StrLess(Lower(PathStr(files[j])), Lower(PathStr(files[i])))

\* C6: with a non-empty explicit file list the result is exactly the listed
\* relative paths that exist, are regular files and pass the exclusion and
\* sandbox rules, sorted case-insensitively; the directory and extension
\* filters do not change it, and a listed path that is missing, excluded or
\* has a ".." segment is dropped without an error.
C6_ExplicitListDecides ==
  (ret.op = "collect_files_for_export" /\ call.files # {}) =>
     LET listed == { PathParts(x) : x \in call.files } \ { <<>> }
         wanted == { RepoBase \o rel :
                       rel \in { r \in listed :
                                   /\ Exists(fs, RepoBase \o r)
                                   /\ IsFile(fs, RepoBase \o r)
                                   /\ PassesExclusion(fs, RepoBase, r)
                                   /\ PassesSandbox(fs, RepoBase, r) } }
     IN  /\ ~ret.err
         /\ SeqRange(ret.files) = wanted
         /\ SortedCaseInsensitively(ret.files)
         /\ collect_files_for_export(fs, RepoBase, {}, {}, call.files).files
               = ret.files
         /\ \A r \in listed : n_dotdot \in SeqRange(r) =>
               RepoBase \o r \notin SeqRange(ret.files)

\* an explicit list returned a file that the extension filter of the same
\* request names not, and dropped a listed file of an excluded type that exists
C6_Witness ==
  /\ ret.op = "collect_files_for_export" /\ call.files # {}
  /\ call.exts = { <<".","m","d">> } /\ call.dirs = { <<"s","r">> }
  /\ RepoBase \o <<<<"B",".","p","y">>>> \in SeqRange(ret.files)
  /\ <<"s","r","c","/","x",".","l","o","g">> \in call.files
  /\ RepoBase \o <<<<"s","r","c">>, <<"x",".","l","o","g">>>> \in DOMAIN fs
  /\ RepoBase \o <<<<"s","r","c">>, <<"x",".","l","o","g">>>> \notin SeqRange(ret.files)

\* the regular files below the repository root
RepoFiles(f, base) ==
  { RelativeTo(p, base) :
      p \in { q \in DOMAIN f : IsPrefix(base, q) /\ q # base /\ f[q].kind = "file" } }

\* rel is d or nested under d, on a segment boundary
InSelectedDirs(rel, dirs) ==
  \/ dirs = {}
  \/ <<>> \in dirs
  \/ \E d \in dirs : IsAncestorOrSelf(Split(d, "/"), rel)

\* C7: without an explicit file list a file is returned iff (a) it and every
\* ancestor segment pass the exclusion rules, (b) the directory set is empty,
\* holds the root marker "" or a directory the file is, or is nested under
\* (directories are named with or without surrounding "/"), (c) the
\* extension set is empty or holds the file's suffix; the result is sorted
\* case-insensitively and holds no file twice.
C7_FiltersAreConjunctive ==
  (ret.op = "collect_files_for_export" /\ call.files = {}) =>
     LET dirs   == { Strip(d, {"/"}) : d \in call.dirs }
         wanted == { RepoBase \o rel :
                       rel \in { r \in RepoFiles(fs, RepoBase) :
                                   /\ PassesExclusion(fs, RepoBase, r)
                                   /\ PassesSandbox(fs, RepoBase, r)
                                   /\ InSelectedDirs(r, dirs)
                                   /\ (call.exts = {}
                                       \/ Suffix(Last(r)) \in call.exts) } }
     IN  /\ ~ret.err
         /\ SeqRange(ret.files) = wanted
         /\ SortedCaseInsensitively(ret.files)
         /\ Cardinality(SeqRange(ret.files)) = Len(ret.files)

\* directory src was selected: src/a.md was returned, src2/c.py, which has
\* "src" as a prefix of its name only, was not
C7_Witness ==
  /\ ret.op = "collect_files_for_export" /\ call.files = {}
  /\ call.dirs = { <<"s","r","c">> } /\ call.exts = {}
  /\ RepoBase \o <<<<"s","r","c","2">>, <<"c",".","p","y">>>> \in DOMAIN fs
  /\ ret.files = << RepoBase \o <<<<"s","r","c">>, <<"a",".","m","d">>>> >>

\* the entries TreeBuilder lists: every entry on the way from the root passes
\* the per-entry rules
EntryListed(f, base, q) ==
  /\ ~IsSymlink(f, q)
  /\ ~IsHidden(Last(q))
  /\ (f[q].kind = "dir" => Last(q) \notin EXCLUDED_DIRS)
  /\ (f[q].kind = "file" =>
        Last(q) \notin EXCLUDED_FILES /\ Suffix(Last(q)) \notin EXCLUDED_FILE_TYPES)
  /\ IsAncestorOrSelf(Resolve(f, base), Resolve(f, q))

ListedFiles(f, base) ==
  { p \in { q \in DOMAIN f : IsPrefix(base, q) /\ q # base /\ f[q].kind = "file" } :
      \A k \in (Len(base) + 1)..Len(p) : EntryListed(f, base, SubSeq(p, 1, k)) }

\* C8: every directory node but the root has a child and, at some depth, a
\* listed file; a directory without any listed file below it is nowhere in
\* the tree; the root node is always returned, without children when
\* everything is filtered out.
C8_EmptyDirectoriesPruned ==
  ret.op = "list_files_and_extensions" =>
     LET nodes  == TreeNodes(ret.tree)
         listed == ListedFiles(fs, RepoBase)
         Below(d) == { p \in listed : IsPrefix(d, p) }
     IN  /\ ret.tree.type = "directory" /\ ret.tree.path = <<>>
         /\ ret.tree.name = PathName(RepoBase)
         /\ \A n \in nodes : n.type \in {"directory", "file"}
         /\ \A n \in nodes : (n.type = "directory" /\ n # ret.tree) =>
               /\ Len(n.children) >= 1
               /\ Below(RepoBase \o Split(n.path, "/")) # {}
         /\ \A d \in DOMAIN fs :
               (IsPrefix(RepoBase, d) /\ d # RepoBase /\ Below(d) = {}) =>
                  \A n \in nodes : n.path # RelStr(d, RepoBase)
         /\ (listed = {}) <=> (ret.tree.children = <<>>)

\* a directory holding only a directory holding only a log file is left out
\* of a tree that lists another file
C8_Witness ==
  /\ ret.op = "list_files_and_extensions"
  /\ RepoBase \o <<<<"e">>, <<"f">>, <<"x",".","l","o","g">>>> \in DOMAIN fs
  /\ Len(ret.tree.children) = 1
  /\ \A n \in TreeNodes(ret.tree) : n.name # <<"e">>

\* nothing under the root is listed: the root node comes back without children
C8_WitnessEmptyRoot ==
  /\ ret.op = "list_files_and_extensions"
  /\ RepoBase \o <<<<"s","r","c">>, <<"x",".","l","o","g">>>> \in DOMAIN fs
  /\ ret.tree.children = <<>>

\* the relative paths of the file nodes of a tree
TreeFilePaths(tree) == { n.path : n \in { m \in TreeNodes(tree) : m.type = "file" } }

\* the relative paths of a list of files of the repository
ExportPaths(files) == { RelStr(files[i], RepoBase) : i \in 1..Len(files) }

\* C12: the files collect_files_for_export returns for empty directory,
\* extension and explicit-file criteria are the file nodes of the tree
\* list_files_and_extensions returns for the same directory
C12_ExportableIffShown ==
  /\ ret.op = "list_files_and_extensions" =>
        TreeFilePaths(ret.tree) =
           ExportPaths(collect_files_for_export(fs, RepoBase, {}, {}, {}).files)
  /\ ( /\ ret.op = "collect_files_for_export"
       /\ call.dirs = {} /\ call.exts = {} /\ call.files = {} ) =>
        ExportPaths(ret.files) =
           TreeFilePaths(list_files_and_extensions(fs, RepoBase).tree)

\* an export without criteria of a repository holding a file in a
\* subdirectory, which is returned, and a file below an excluded directory,
\* which is not
C12_Witness ==
  /\ ret.op = "collect_files_for_export"
  /\ call.dirs = {} /\ call.exts = {} /\ call.files = {}
  /\ <<<<"s","r","c">>, <<"b","i","n">>, <<"z",".","p","y">>>> \in RepoFiles(fs, RepoBase)
  /\ <<<<"s","r","c">>, <<"a",".","m","d">>>> \in RepoFiles(fs, RepoBase)
  /\ ExportPaths(ret.files) = { <<"s","r","c","/","a",".","m","d">> }

----------------------------------------------------------------------------
(* pagination: render_markdown_pages *)

MaxPageFiles == 3

\* the files a repository to export may hold, and their sizes in bytes
PagePaths == << <<<<"a",".","m","d">>>>, <<<<"s","r","c">>, <<"B",".","p","y">>>>,
               <<<<"s","r","c">>, <<"c",".","p","y">>>>, <<<<"s","r","c","2">>, <<"d",".","m","d">>>> >>

FileSizes == { 1, 400, 1500 }

\* page budgets: below the size of the preamble, between it and the size of
\* the preamble with the tree diagram, and above both
Budgets == { 200, 400, 600, 1000, 2000 }

PageRepos ==
  { RepoFs({ RepoEntry(PagePaths[i], FileNode(sz[i])) : i \in S }) :
      S \in SUBSET (1..MaxPageFiles),
      sz \in [1..MaxPageFiles -> FileSizes] }

InitPages ==
  /\ fs \in PageRepos
  /\ now = 1
  /\ uploaded_paths = <<>>
  /\ \E budget \in Budgets :
        call = [op |-> "render_markdown_pages", repo_name |-> n_repo,
                files |-> collect_files_for_export(fs, RepoBase, {}, {}, {}).files,
                max_page_bytes |-> budget]
  /\ ret = NoRet

CallRenderMarkdownPages ==
  /\ call.op = "render_markdown_pages" /\ ret.op = "none"
  /\ ret' = [op |-> call.op,
             pages |-> render_markdown_pages(fs, call.repo_name, RepoBase,
                                             call.files, call.max_page_bytes)]
  /\ UNCHANGED <<fs, now, uploaded_paths, call>>

NextPages == CallRenderMarkdownPages

SpecPages == InitPages /\ [][NextPages]_vars

\* the accounted size of a page: the UTF-8 length of each line plus one
RECURSIVE AccountedBytes(_)
AccountedBytes(page) ==
  IF page = <<>> THEN 0
  ELSE Utf8Bytes(page[1].text) + page[1].blob + 1 + AccountedBytes(Tail(page))

\* the blocks of an export, in order: preamble with tree diagram, "Files"
\* header, one block per file
ExportBlocks(f, repo_name, base_dir, files) ==
  << preamble_lines(repo_name) \o tree_lines(base_dir, files),
     << Line(<<"#","#"," ","F","i","l","e","s">>) >> >>
  \o [i \in 1..Len(files) |-> file_block(f, base_dir, files[i])]

RECURSIVE Concat(_)
Concat(blocks) == IF blocks = <<>> THEN <<>> ELSE blocks[1] \o Concat(Tail(blocks))

\* the i-th smallest element of a set of numbers, i counted from 0
Nth(S, i) == CHOOSE x \in S : Cardinality({ y \in S : y < x }) = i

\* the pages are the blocks cut after the block numbers in cuts: page i is
\* SubSeq(blocks, PageFirst, PageLast)
PageFirst(blocks, cuts, i) == Nth(cuts \cup {0, Len(blocks)}, i - 1) + 1

PageLast(blocks, cuts, i) == Nth(cuts \cup {0, Len(blocks)}, i)

IsPagination(pages, blocks, cuts) ==
  /\ Cardinality(cuts) = Len(pages) - 1
  /\ \A i \in 1..Len(pages) :
        pages[i] = Concat(SubSeq(blocks, PageFirst(blocks, cuts, i),
                                 PageLast(blocks, cuts, i)))

OneOversizedFile ==
  /\ ret.op = "render_markdown_pages"
  /\ Len(call.files) = 1
  /\ AccountedBytes(file_block(fs, RepoBase, call.files[1])) > call.max_page_bytes

\* C4 as stated: one file whose block alone exceeds the budget gives exactly
\* one page, holding the whole block.
C4_OneOversizedFileOnePage ==
  OneOversizedFile =>
     /\ Len(ret.pages) = 1
     /\ \E k \in 0..Len(ret.pages[1]) :
           SubSeq(ret.pages[1], k + 1, k + 5) = file_block(fs, RepoBase, call.files[1])

\* C4 as the code has it: the whole block of the file is the last page, alone
\* on it, after the page or pages with the preamble, the tree diagram and the
\* "Files" header: two pages when these fit the budget together, else three.
C4_OneOversizedFileOwnPage ==
  OneOversizedFile =>
     LET blocks == ExportBlocks(fs, call.repo_name, RepoBase, call.files) IN
     IF AccountedBytes(blocks[1]) + AccountedBytes(blocks[2]) <= call.max_page_bytes
     THEN ret.pages = << blocks[1] \o blocks[2], blocks[3] >>
     ELSE ret.pages = << blocks[1], blocks[2], blocks[3] >>

\* a file of 1500 bytes was rendered with a budget of 1000: two pages
C4_Witness ==
  /\ OneOversizedFile
  /\ call.max_page_bytes = 1000
  /\ Len(ret.pages) = 2
  /\ ret.pages[2][3].blob = 1500

SeparateBlocks(f, repo_name, base_dir, files) ==
  << preamble_lines(repo_name), tree_lines(base_dir, files),
     << Line(<<"#","#"," ","F","i","l","e","s">>) >> >>
  \o [i \in 1..Len(files) |-> file_block(f, base_dir, files[i])]

\* the accounted size of the blocks first..last
RECURSIVE BlocksBytes(_, _, _)
BlocksBytes(blocks, first, last) ==
  IF first > last THEN 0
  ELSE AccountedBytes(blocks[first]) + BlocksBytes(blocks, first + 1, last)

\* the pages are the blocks, each once, whole and in order, cut greedily: a
\* page ends after block k exactly when the page so far together with block
\* k + 1 would exceed the budget; no page is empty
IsGreedyPacking(pages, blocks, budget) ==
  \E cuts \in SUBSET (1..(Len(blocks) - 1)) :
     /\ IsPagination(pages, blocks, cuts)
     /\ \A i \in 1..Len(pages) : pages[i] # <<>>
     /\ \A k \in 1..(Len(blocks) - 1) :
           LET first == 1 + Nth(cuts \cup {0}, Cardinality({ c \in cuts : c < k })) IN
           k \in cuts <=>
              BlocksBytes(blocks, first, k) + AccountedBytes(blocks[k + 1]) > budget

----------------------------------------------------------------------------
(* the server: requests, websocket teardown and the reaper *)

\* requests served in one run
MaxClock == 3

Sids == { n_s1, n_s2, n_dot }

\* the remote repositories: what "git clone" of the URL writes
Urls == { <<"h","/","r","e","p","o",".","g","i","t">>, <<"h","/","x","/",".",".">> }

Cloned ==
  { RepoEntry(<<<<"a",".","m","d">>>>, FileNode(3)),
    RepoEntry(<<<<"l","n","k">>>>, LinkNode(<<n_etc>>)) }

GitRuns ==
  { [outcome |-> "ok",      wrote |-> TRUE,  content |-> Cloned],
    [outcome |-> "timeout", wrote |-> TRUE,
     content |-> { RepoEntry(<<<<"a",".","m","d">>>>, FileNode(3)) }],
    [outcome |-> "failed",  wrote |-> FALSE, content |-> {}] }

Archive(entries) == [size |-> 9, valid |-> TRUE, entries |-> entries]

\* a wrapped archive, a later version of it without a.md, an archive with
\* its files at the top, one whose second member cannot be written, an
\* empty upload
Uploads ==
  { Archive(<< ZipMember(<<"r","e","p","o","/">>, FALSE, 0),
               ZipMember(<<"r","e","p","o","/","a",".","m","d">>, FALSE, 11) >>),
    Archive(<< ZipMember(<<"r","e","p","o","/">>, FALSE, 0),
               ZipMember(<<"r","e","p","o","/","c",".","p","y">>, FALSE, 19) >>),
    Archive(<< ZipMember(<<"R","E","A","D","M","E">>, FALSE, 12) >>),
    Archive(<< ZipMember(<<"r","e","p","o","/","a",".","m","d">>, FALSE, 11),
               ZipMember(<<"r","e","p","o","/","a",".","m","d","/","b">>, FALSE, 17) >>),
    [size |-> 0, valid |-> FALSE, entries |-> <<>>] }

TmpRnd == { <<"a">>, <<"b">> }

ExportRequests ==
  [ repo_name : { n_repo, n_dotdot, <<"n","o","p","e">> },
    dirs : { {} }, exts : { {} }, files : { {} } ]

Init ==
  /\ fs = FsEmpty @@ ( SAFE_ROOT :> DirNode(0) )
  /\ now = 1
  /\ uploaded_paths = <<>>
  /\ call = [op |-> "none"]
  /\ ret = Response("none")

AnalyzeRepo ==
  /\ now < MaxClock
  /\ \E sid \in Sids, url \in Urls, git \in GitRuns :
        \E r \in { analyze_repo(fs, sid, url, git, now + 1) } :
           /\ fs' = r.fs
           /\ call' = [op |-> "analyze_repo", session_id |-> sid, repo_url |-> url]
           /\ ret' = [r.resp EXCEPT !.pre = fs]
  /\ now' = now + 1
  /\ UNCHANGED uploaded_paths

AnalyzeZip ==
  /\ now < MaxClock
  /\ \E sid \in Sids, upload \in Uploads, rnd \in TmpRnd :
        /\ Append(TempDir, TempName(sid, rnd)) \notin DOMAIN fs
        /\ \E r \in { analyze_zip(fs, uploaded_paths, sid, upload, rnd, now + 1) } :
              /\ fs' = r.fs
              /\ uploaded_paths' = r.uploaded_paths
              /\ call' = [op |-> "analyze_zip", session_id |-> sid, upload |-> upload]
              /\ ret' = [r.resp EXCEPT !.pre = fs]
  /\ now' = now + 1

ExportText ==
  /\ now < MaxClock
  /\ \E sid \in Sids, req \in ExportRequests :
        \E r \in { export_text(fs, sid, req, now + 1) } :
           /\ fs' = r.fs
           /\ call' = [op |-> "export_text", session_id |-> sid, req |-> req]
           /\ ret' = [r.resp EXCEPT !.pre = fs]
  /\ now' = now + 1
  /\ UNCHANGED uploaded_paths

ExportFile ==
  /\ now < MaxClock
  /\ \E sid \in Sids, req \in ExportRequests :
        \E r \in { export_file(fs, sid, req, now + 1) } :
           /\ fs' = r.fs
           /\ call' = [op |-> "export_file", session_id |-> sid, req |-> req]
           /\ ret' = [r.resp EXCEPT !.pre = fs]
  /\ now' = now + 1
  /\ UNCHANGED uploaded_paths

WsClose ==
  /\ now < MaxClock
  /\ \E sid \in Sids :
        \E r \in { ws_endpoint_finally(fs, uploaded_paths, sid, now + 1) } :
           /\ fs' = r.fs
           /\ uploaded_paths' = r.uploaded_paths
           /\ call' = [op |-> "ws_endpoint", session_id |-> sid]
           /\ ret' = [Response("ws_endpoint") EXCEPT !.pre = fs]
  /\ now' = now + 1

\* the directories older than the time to live are those last modified at
\* or before some moment
SessionGc ==
  /\ now < MaxClock
  /\ \E limit \in 0..now :
        \E stale \in { { d \in IterDir(fs, SAFE_ROOT) :
                           IsDir(fs, d) /\ fs[Stat(fs, d)].mtime <= limit } } :
           /\ stale # {}
           /\ \E f1 \in { ensure_safe_root(fs, now + 1) } :
                 fs' = session_gc_round(f1, stale, now + 1)
           /\ call' = [op |-> "session_gc_loop", stale |-> stale]
           /\ ret' = [Response("session_gc_loop") EXCEPT !.pre = fs]
  /\ now' = now + 1
  /\ UNCHANGED uploaded_paths

Next ==
  \/ AnalyzeRepo
  \/ AnalyzeZip
  \/ ExportText
  \/ ExportFile
  \/ WsClose
  \/ SessionGc

Spec == Init /\ [][Next]_vars

Ingestions == { "analyze_repo", "analyze_zip" }

Exports == { "export_text", "export_file" }

\* the entries of the session root and everything below them
Below(f, base) == { p \in DOMAIN f : IsPrefix(base, p) /\ p # base }

\* C1: whenever analyze_repo (clone_repo_to_session), analyze_zip
\* (unpack_zip_to_session), export_text or export_file went on to read, write
\* or enumerate a repository directory, whatever the repository name, that
\* directory is a strict descendant of the session root, and no file outside
\* the session root is read; stated for the sessions whose root is below the
\* safe root
C1_RepoDirStrictlyBelowSessionRoot ==
  (ret.op \in Ingestions \cup Exports /\ ret.enumerated /\ ret.base # SAFE_ROOT) =>
     /\ ret.base \in Parents(Resolve(fs, ret.repo_dir))
     /\ \A i \in 1..Len(ret.files) : ret.base \in Parents(Resolve(fs, ret.files[i]))

\* C9: an archive ingestion that follows an ingestion of the same archive
\* into the same session answers with the same tree, and after an archive
\* ingestion nothing but the repository of that archive is in the session
\* root; stated for the sessions whose root is below the safe root
C9_SameArchiveSameTree ==
  [][ (ret'.op = "analyze_zip" /\ ret'.status = 200 /\ ret'.base # SAFE_ROOT) =>
        /\ ( /\ ret.op = "analyze_zip" /\ ret.status = 200
             /\ call'.session_id = call.session_id
             /\ call'.upload = call.upload )
           => ret'.dirs_tree = ret.dirs_tree
        /\ \A p \in Below(fs', ret'.base) : IsPrefix(ret'.repo_dir, p)
    ]_vars

\* C10: after a failed ingestion the session root holds no directory that the
\* ingestion produced: its directories are those the request found,
\* unchanged; stated for the sessions whose root is below the safe root
C10_FailedIngestionLeavesNoRepoDir ==
  (ret.op \in Ingestions /\ ret.status # 200 /\ SAFE_ROOT \in Parents(ret.base)) =>
     \A d \in IterDir(fs, ret.base) :
        IsDir(fs, d) =>
           \A p \in { q \in DOMAIN fs : IsPrefix(d, q) } :
              p \in DOMAIN ret.pre /\ ret.pre[p] = fs[p]

\* the sessions an answered request tore down or cleared: the session of a
\* websocket that closed or of an archive ingestion, the sessions the reaper
\* found stale
TornDown ==
  IF ret.op = "session_gc_loop" THEN { PathName(d) : d \in call.stale }
  ELSE IF ret.op \in { "ws_endpoint", "analyze_zip" } THEN { call.session_id }
  ELSE {}

\* the root of session t as session_dir_path resolves it
SessionRoot(f, t) == session_dir_path(f, t, now).d

\* C13: tearing down or clearing session s deletes and modifies nothing
\* under the root of another accepted session t; stated for the sessions t
\* whose root is below the safe root
C13_TeardownSparesOtherSessions ==
  \A s \in TornDown : \A t \in Sids \ {s} :
     \E root \in { SessionRoot(ret.pre, t) } :
        (~session_dir_path(ret.pre, t, now).err /\ SAFE_ROOT \in Parents(root)) =>
           \A p \in DOMAIN ret.pre :
              root \in Parents(p) => (p \in DOMAIN fs /\ fs[p] = ret.pre[p])

----------------------------------------------------------------------------
(* analyze_zip requests and websocket teardown of one session, interleaved  *)
(* at the awaits of analyze_zip                                             *)

\* analyze_zip requests in one run
MaxUploads == 2

\* websocket teardowns in one run
MaxCloses == 2

UploadRequests == 1..MaxUploads

\* a wrapped archive, one whose second member cannot be written, an empty
\* upload
UploadKinds ==
  { Archive(<< ZipMember(<<"r","e","p","o","/">>, FALSE, 0),
               ZipMember(<<"r","e","p","o","/","a",".","m","d">>, FALSE, 11) >>),
    Archive(<< ZipMember(<<"r","e","p","o","/","a",".","m","d">>, FALSE, 11),
               ZipMember(<<"r","e","p","o","/","a",".","m","d","/","b">>, FALSE, 17) >>),
    [size |-> 0, valid |-> FALSE, entries |-> <<>>] }

\* a request that has not arrived
NoUpload == [pc |-> "idle", upload |-> <<>>, upload_path |-> <<>>, status |-> 0]

\* analyze_zip up to its first await: the session directory, the temporary
\* file, the registry entry
analyze_zip_start(f, reg, x_session_id, rnd, t) ==
  With(session_dir(f, x_session_id, t), LAMBDA s0 :
  With(Touch(s0.fs, s0.d, t), LAMBDA f1 :
  With(Append(TempDir, TempName(x_session_id, rnd)), LAMBDA upload_path :
  [fs |-> WriteFile(f1, upload_path, 0, t).fs,
   uploaded_paths |-> (x_session_id :> upload_path) @@ reg,
   upload_path |-> upload_path])))

\* save_upload_file: the upload is written to the temporary file, which is
\* created when it is not there
analyze_zip_save(f, upload_path, upload, t) == WriteFile(f, upload_path, upload.size, t).fs

\* the check after saving
analyze_zip_check(f, upload_path) == Exists(f, upload_path) /\ f[upload_path].data # 0

\* unpack_zip_to_session and analyze_repo_path on a worker thread
analyze_zip_unpack(f, x_session_id, upload_path, upload, t) ==
  With(unpack_zip_to_session(f, x_session_id, upload_path, upload, t), LAMBDA u :
  [fs |-> u.fs, status |-> IF u.err THEN 500 ELSE 200])

\* the finally clause of analyze_zip
analyze_zip_finally(f, reg, x_session_id, upload_path, t) ==
  [fs |-> Unlink(f, upload_path, t), uploaded_paths |-> Forget(reg, x_session_id)]

InitUpload ==
  /\ fs = FsEmpty @@ ( SAFE_ROOT :> DirNode(0) )
  /\ now = 1
  /\ uploaded_paths = <<>>
  /\ call = [op |-> "analyze_zip", session_id |-> n_s1,
             req |-> [r \in UploadRequests |-> NoUpload], closes |-> 0]
  /\ ret = NoRet

UploadStart ==
  \E r \in UploadRequests, upload \in UploadKinds, rnd \in TmpRnd :
     /\ call.req[r].pc = "idle"
     /\ \A q \in UploadRequests : q < r => call.req[q].pc # "idle"
     /\ Append(TempDir, TempName(call.session_id, rnd)) \notin DOMAIN fs
     /\ \E x \in { analyze_zip_start(fs, uploaded_paths, call.session_id, rnd, now + 1) } :
           /\ fs' = x.fs
           /\ uploaded_paths' = x.uploaded_paths
           /\ call' = [call EXCEPT !.req[r] =
                         [pc |-> "save", upload |-> upload,
                          upload_path |-> x.upload_path, status |-> 0]]
     /\ ret' = [op |-> "analyze_zip", step |-> "start", request |-> r]
     /\ now' = now + 1

UploadSave ==
  \E r \in UploadRequests :
     /\ call.req[r].pc = "save"
     /\ fs' = analyze_zip_save(fs, call.req[r].upload_path, call.req[r].upload, now + 1)
     /\ call' = [call EXCEPT !.req[r].pc = "check"]
     /\ ret' = [op |-> "analyze_zip", step |-> "save", request |-> r]
     /\ now' = now + 1
     /\ UNCHANGED uploaded_paths

UploadCheck ==
  \E r \in UploadRequests :
     /\ call.req[r].pc = "check"
     /\ call' = IF analyze_zip_check(fs, call.req[r].upload_path)
                THEN [call EXCEPT !.req[r].pc = "unpack"]
                ELSE [call EXCEPT !.req[r].pc = "done", !.req[r].status = 500]
     /\ ret' = [op |-> "analyze_zip", step |-> "check", request |-> r]
     /\ UNCHANGED <<fs, now, uploaded_paths>>

UploadUnpack ==
  \E r \in UploadRequests :
     /\ call.req[r].pc = "unpack"
     /\ \E x \in { analyze_zip_unpack(fs, call.session_id, call.req[r].upload_path,
                                      call.req[r].upload, now + 1) } :
           /\ fs' = x.fs
           /\ call' = [call EXCEPT !.req[r].pc = "finally", !.req[r].status = x.status]
     /\ ret' = [op |-> "analyze_zip", step |-> "unpack", request |-> r]
     /\ now' = now + 1
     /\ UNCHANGED uploaded_paths

UploadFinally ==
  \E r \in UploadRequests :
     /\ call.req[r].pc = "finally"
     /\ \E x \in { analyze_zip_finally(fs, uploaded_paths, call.session_id,
                                       call.req[r].upload_path, now + 1) } :
           /\ fs' = x.fs
           /\ uploaded_paths' = x.uploaded_paths
     /\ call' = [call EXCEPT !.req[r].pc = "done"]
     /\ ret' = [op |-> "analyze_zip", step |-> "finally", request |-> r]
     /\ now' = now + 1

UploadWsClose ==
  /\ call.closes < MaxCloses
  /\ \E x \in { ws_endpoint_finally(fs, uploaded_paths, call.session_id, now + 1) } :
        /\ fs' = x.fs
        /\ uploaded_paths' = x.uploaded_paths
  /\ call' = [call EXCEPT !.closes = call.closes + 1]
  /\ ret' = [op |-> "ws_endpoint", step |-> "finally", request |-> 0]
  /\ now' = now + 1

NextUpload ==
  \/ UploadStart
  \/ UploadSave
  \/ UploadCheck
  \/ UploadUnpack
  \/ UploadFinally
  \/ UploadWsClose

SpecUpload == InitUpload /\ [][NextUpload]_vars

\* the requests that arrived
Arrived == { r \in UploadRequests : call.req[r].pc # "idle" }

=============================================================================
